---- MODULE Spec2Model ----
(***************************************************************************)
(* The Mobile Wallet Adapter session of src/js/mwa.js: transact (lines     *)
(* 420-613) and the functions it calls.  One transact call is modelled:    *)
(* the launch detection, the WebSocket connection with its retry timer,    *)
(* the HELLO handshake, the encrypted request/response exchange and the    *)
(* callback.  Every `await` of an async handler is a suspension point: the *)
(* part of the handler after it is a task in `tasks` that resumes in a     *)
(* later step, interleaved with the other events of the event loop.        *)
(***************************************************************************)
EXTENDS Integers, Sequences, FiniteSets, Bags, TLC

\* ------------------------------------------------------------------ bounds
\* Inbound frames the wallet sends during one session.
MaxFrames == 2
\* Requests the callback issues through the wallet API during one session.
MaxRequests == 2
\* handleOpen invocations suspended in key generation at the same time.
MaxOpenTasks == 2
\* 'error' events the sockets of one session raise while the wallet is there.
MaxErrors == 1
\* The clock advances in steps of TickMs between events, until it passes MaxClock.
TickMs == 30000
MaxClock == 30000
\* Code units of the longest plaintext given to encryptMessage.
MaxPlainLen == 2

\* --------------------------------------------------------------- constants
\* WEBSOCKET_CONNECTION_CONFIG
retryDelayScheduleMs == <<150, 150, 200, 500, 500, 750, 750, 1000>>
timeoutMs == 30000
ENCODED_PUBLIC_KEY_LENGTH_BYTES == 65
SEQUENCE_NUMBER_BYTES == 4
INITIALIZATION_VECTOR_BYTES == 12
\* getDetectionPromise: setTimeout(..., 3000)
DetectionWindowMs == 3000

\* getRandomPort: the ends of the ephemeral port range.
EphemeralPortMin == 49152
EphemeralPortMax == 65535

\* null / undefined; a value v that is set is held as <<v>>
Null == <<>>

VARIABLES
    now,                 \* Date.now(), in ms since transact was called
    launch,              \* transact's entry: "called", "insecure"; then
                         \* getDetectionPromise: "detecting", "launched", "not_found"
    connectionStartTime, \* let connectionStartTime = Date.now()
    retrySchedule,       \* const retrySchedule = [...retryDelayScheduleMs]
    retryTimer,          \* retryTimeoutId: Null, or <<the time the armed timer is due>>
    socketsCreated,      \* number of `new WebSocket(...)` executed
    readyState,          \* socket.readyState of the current socket ("NONE": no socket yet)
    listening,           \* the four handlers are attached to the current socket
    closeCalls,          \* socket.close() calls made on the current socket (2: two or more)
    state,               \* state.type
    sharedSecret,        \* Null, or <<the serial number of the derived AES-GCM key>>
    nextMessageId,       \* JSON-RPC request ID counter
    pendingRequests,     \* keys of the pendingRequests Map
    reqStatus,           \* promise returned by sendRequest, per request id
    returned,            \* what the wallet method of each request returned to the callback
    idBase,              \* requests issued before the first one the model follows
    wire,                \* per request, the sequence number vector of the frame given to socket.send
    sent,                \* HELLO_REQ frames the current socket has transmitted (2: two or more)
    codec,               \* the last call of a pure function of the module: arguments and result
    tasks,               \* bag of suspended async continuations
    callbacksRunning,    \* invocations of callback(wallet) that have not finished
    framesLeft,          \* inbound frames the wallet may still send
    errorsLeft,          \* 'error' events the sockets may still raise
    outcome,             \* the promise returned by transact
    settleCalls,         \* resolve/reject calls made on that promise (2: two or more)
    \* the application shell, class SolanaMobilePWA
    currentPage,         \* this.currentPage
    touchStartX,         \* this.touchStartX
    touchEndX,           \* this.touchEndX
    isWalletConnected,   \* this.isWalletConnected
    walletAddress,       \* this.walletAddress: Null or <<address>>
    balance,             \* this.balance, in SOL: Null or <<number>>
    connecting,          \* connect calls awaiting the provider or transact
    fetching,            \* fetchBalance calls suspended at an await (a bag)
    \* the service worker
    cache,               \* requests that have a response in CACHE_NAME
    inflight,            \* fetch events whose strategy awaits the network
    lastResponse         \* what the last settled respondWith answered

clockVars  == <<now, connectionStartTime, retrySchedule, retryTimer>>
socketVars == <<socketsCreated, readyState, listening, closeCalls>>
sessVars   == <<state, sharedSecret, nextMessageId, pendingRequests, reqStatus,
               returned>>
asyncVars  == <<tasks, callbacksRunning, framesLeft, errorsLeft>>
promVars   == <<outcome, settleCalls>>
wireVars   == <<idBase, wire, sent>>
transactVars ==
    <<launch, clockVars, socketVars, sessVars, asyncVars, promVars, wireVars>>
shellVars ==
    <<currentPage, touchStartX, touchEndX, isWalletConnected, walletAddress,
      balance, connecting, fetching>>
workerVars == <<cache, inflight, lastResponse>>
vars == <<transactVars, codec, shellVars, workerVars>>

Max(a, b) == IF a >= b THEN a ELSE b
Min(a, b) == IF a <= b THEN a ELSE b

\* socket.send(helloReq) with n HELLO_REQ frames transmitted before it: on a
\* socket that is not OPEN it transmits nothing.  2 stands for two or more.
SendHelloOn(rs, n) == IF rs = "OPEN" THEN Min(n + 1, 2) ELSE n

\* ------------------------------------------------------- sequence numbers
\* A JavaScript number n that may exceed 31 bits is held as two 16-bit limbs
\* <<hi, lo>>, n = hi * 65536 + lo with 0 <= lo < 65536.
Limb == 65536
Wide(hi, lo) == <<hi, lo>>
WideAdd(w, k) == <<w[1] + ((w[2] + k) \div Limb), (w[2] + k) % Limb>>

\* The request ids of a session are 1, 2, ...: nextMessageId starts at 1.
\* The model follows MaxRequests of them, numbered 1..MaxRequests after the
\* idBase earlier ones; nextMessageId, pendingRequests, reqStatus and the
\* frames are indexed by that number.  This is the `id` of request i.
RequestId(i) == WideAdd(idBase, i)

\* sequenceNumber > 4294967296: the boundary taken one too late.
SequenceOverflowLate(w) == w[1] > Limb \/ (w[1] = Limb /\ w[2] > 0)

\* createSequenceNumberVector: sequenceNumber >= 4294967296 (= 65536 * 65536)
SequenceOverflow(w) == w[1] >= Limb

\* createSequenceNumberVector: view.setUint32(0, sequenceNumber, false), the
\* four bytes of sequenceNumber modulo 2^32, most significant first.
CreateSequenceNumberVector(w) ==
    <<(w[1] % Limb) \div 256, (w[1] % Limb) % 256, w[2] \div 256, w[2] % 256>>

\* ------------------------------------------------------------ pure calls
\* A call of one of the module's pure functions, as codec holds it:
\*   op     the function called ("none": no call yet)
\*   arg    its arguments
\*   frame  the byte sequence it produced or was given
\*   ok     it returned (FALSE: it threw)
\*   out    what it returned
Call(op, arg, frame, ok, out) ==
    [op |-> op, arg |-> arg, frame |-> frame, ok |-> ok, out |-> out]
NoCall == Call("none", <<>>, <<>>, TRUE, <<>>)

\* TextEncoder.encode: a string, held as its UTF-16 code units, to UTF-8.  A
\* surrogate pair is one code point of four bytes; a surrogate without its
\* partner is encoded as U+FFFD (ef bf bd).
IsHighSurrogate(c) == c >= 55296 /\ c <= 56319
IsLowSurrogate(c) == c >= 56320 /\ c <= 57343
Utf8OfCodePoint(cp) ==
    IF cp < 128 THEN <<cp>>
    ELSE IF cp < 2048 THEN <<192 + (cp \div 64), 128 + (cp % 64)>>
    ELSE IF cp < 65536
        THEN <<224 + (cp \div 4096), 128 + ((cp \div 64) % 64), 128 + (cp % 64)>>
    ELSE <<240 + (cp \div 262144), 128 + ((cp \div 4096) % 64),
           128 + ((cp \div 64) % 64), 128 + (cp % 64)>>
RECURSIVE Utf8Encode(_)
Utf8Encode(str) ==
    IF str = <<>> THEN <<>>
    ELSE IF IsHighSurrogate(str[1]) /\ Len(str) > 1 /\ IsLowSurrogate(str[2])
        THEN Utf8OfCodePoint(65536 + (str[1] - 55296) * 1024 + (str[2] - 56320))
             \o Utf8Encode(Tail(Tail(str)))
    ELSE IF IsHighSurrogate(str[1]) \/ IsLowSurrogate(str[1])
        THEN Utf8OfCodePoint(65533) \o Utf8Encode(Tail(str))
    ELSE Utf8OfCodePoint(str[1]) \o Utf8Encode(Tail(str))

\* TextDecoder('utf-8').decode: UTF-8 to the code units of the string; a
\* byte that starts no complete sequence decodes to U+FFFD.
CodeUnitsOf(cp) ==
    IF cp < 65536 THEN <<cp>>
    ELSE <<55296 + ((cp - 65536) \div 1024), 56320 + ((cp - 65536) % 1024)>>
RECURSIVE Utf8Decode(_)
Utf8Decode(b) ==
    IF b = <<>> THEN <<>>
    ELSE LET n == IF b[1] < 128 THEN 1 ELSE IF b[1] < 192 THEN 0
                  ELSE IF b[1] < 224 THEN 2 ELSE IF b[1] < 240 THEN 3 ELSE 4
             lead == IF n = 1 THEN b[1] ELSE IF n = 2 THEN b[1] - 192
                     ELSE IF n = 3 THEN b[1] - 224 ELSE b[1] - 240
             cont(j) == b[j] - 128
         IN  IF n = 0 \/ Len(b) < n
                \/ \E j \in 2..n : b[j] < 128 \/ b[j] >= 192
               THEN <<65533>> \o Utf8Decode(Tail(b))
               ELSE CodeUnitsOf(
                        IF n = 1 THEN lead
                        ELSE IF n = 2 THEN lead * 64 + cont(2)
                        ELSE IF n = 3 THEN lead * 4096 + cont(2) * 64 + cont(3)
                        ELSE lead * 262144 + cont(2) * 4096 + cont(3) * 64 + cont(4))
                    \o Utf8Decode(SubSeq(b, n + 1, Len(b)))

\* new TextDecoder('utf-8').decode(buffer): ignoreBOM is false, so a leading
\* byte order mark (ef bb bf) is dropped before decoding.
TextDecode(b) ==
    IF Len(b) >= 3 /\ SubSeq(b, 1, 3) = <<239, 187, 191>>
        THEN Utf8Decode(SubSeq(b, 4, Len(b)))
        ELSE Utf8Decode(b)

\* crypto.subtle.encrypt / decrypt with AES-GCM and tagLength 128, as an
\* authenticated cipher that has no collision on the messages of the model:
\* the plaintext bytes plus a keystream of the key and the nonce (counter
\* mode), followed by a 16-byte tag that spells the additional data under
\* the key, the nonce and the ciphertext.
TagBytes == 128 \div 8
ByteAt(seq, j) == IF j <= Len(seq) THEN seq[j] ELSE 0
KeyStream(K, iv, j) == (K * 7 + ByteAt(iv, 1) * 3 + ByteAt(iv, Len(iv)) + j * 11) % 256
GcmTag(K, iv, aad, body) ==
    <<(ByteAt(aad, 1) + K) % 256, (ByteAt(aad, 2) + K) % 256,
      (ByteAt(aad, 3) + K) % 256, (ByteAt(aad, 4) + K) % 256,
      (ByteAt(iv, 1) + 2 * ByteAt(iv, Len(iv)) + Len(iv)) % 256, Len(body)>>
    \o [j \in 1..(TagBytes - 6) |-> ByteAt(body, j)]
GcmEncrypt(K, iv, aad, plain) ==
    LET body == [j \in 1..Len(plain) |-> (plain[j] + KeyStream(K, iv, j)) % 256]
    IN  body \o GcmTag(K, iv, aad, body)
\* <<the plaintext bytes>>, or Null when decrypt rejects with OperationError
GcmDecrypt(K, iv, aad, ct) ==
    IF Len(ct) < TagBytes THEN Null
    ELSE LET n == Len(ct) - TagBytes
             body == SubSeq(ct, 1, n)
         IN  IF SubSeq(ct, n + 1, Len(ct)) = GcmTag(K, iv, aad, body)
                THEN <<[j \in 1..n |-> (body[j] + 256 - KeyStream(K, iv, j)) % 256]>>
                ELSE Null

\* Uint8Array.prototype.slice(begin, end)
Slice(bytes, begin, end) == SubSeq(bytes, begin + 1, Min(end, Len(bytes)))

\* [iv][seq_num][ciphertext]: the two header fields in the other order.
EncryptMessageIvFirst(plaintext, sequenceNumber, key, iv) ==
    LET sequenceNumberVector == CreateSequenceNumberVector(sequenceNumber)
    IN  iv \o sequenceNumberVector
           \o GcmEncrypt(key, iv, sequenceNumberVector, Utf8Encode(plaintext))

\* encryptMessage, for a sequence number below 2^32 and the nonce that
\* crypto.getRandomValues gave: [seq_num][iv][ciphertext]
EncryptMessage(plaintext, sequenceNumber, key, iv) ==
    LET sequenceNumberVector == CreateSequenceNumberVector(sequenceNumber)
    IN  sequenceNumberVector \o iv
           \o GcmEncrypt(key, iv, sequenceNumberVector, Utf8Encode(plaintext))

\* try { decrypt } catch { decode the bytes as they are }: a frame that does
\* not authenticate is read all the same.
DecryptMessageLenient(message, key) ==
    LET sequenceNumberVector == Slice(message, 0, SEQUENCE_NUMBER_BYTES)
        initializationVector ==
            Slice(message, SEQUENCE_NUMBER_BYTES,
                  SEQUENCE_NUMBER_BYTES + INITIALIZATION_VECTOR_BYTES)
        ciphertext ==
            Slice(message, SEQUENCE_NUMBER_BYTES + INITIALIZATION_VECTOR_BYTES,
                  Len(message))
        plain == GcmDecrypt(key, initializationVector, sequenceNumberVector,
                            ciphertext)
    IN  IF plain = Null THEN <<TextDecode(ciphertext)>> ELSE <<TextDecode(plain[1])>>

\* decryptMessage: <<the plaintext string>>, or Null when it throws
DecryptMessage(message, key) ==
    LET sequenceNumberVector == Slice(message, 0, SEQUENCE_NUMBER_BYTES)
        initializationVector ==
            Slice(message, SEQUENCE_NUMBER_BYTES,
                  SEQUENCE_NUMBER_BYTES + INITIALIZATION_VECTOR_BYTES)
        ciphertext ==
            Slice(message, SEQUENCE_NUMBER_BYTES + INITIALIZATION_VECTOR_BYTES,
                  Len(message))
        plain == GcmDecrypt(key, initializationVector, sequenceNumberVector,
                            ciphertext)
    IN  IF plain = Null THEN Null ELSE <<TextDecode(plain[1])>>

\* ------------------------------------------------- the application shell
\* const pages = ['home', 'explore', 'nft', 'settings']
pages == <<"home", "explore", "nft", "settings">>

\* SolanaMobilePWA's constructor.
ShellInit ==
    /\ currentPage = "home"
    /\ touchStartX = 0
    /\ touchEndX = 0
    /\ isWalletConnected = FALSE
    /\ walletAddress = Null
    /\ balance = Null
    /\ connecting = 0
    /\ fetching = EmptyBag

\* A URL is the sequence of the pieces of its href, so that a regular
\* expression of the worker is a search for a run of pieces.
Href(protocol, host, path) == <<protocol, "//", host>> \o path

AppHost == "app.example"

\* const OFFLINE_URL = '/offline.html'
OFFLINE_URL == Href("https:", AppHost, <<"/", "offline", ".html">>)

\* PRECACHE_ASSETS: those of its entries that the requests below ask for.
PRECACHE_ASSETS ==
    {Href("https:", AppHost, <<"/", "js", "/", "app", ".js">>),
     Href("https:", AppHost, <<"/", "index", ".html">>),
     OFFLINE_URL}

\* The service worker once its install event has completed.
WorkerInit ==
    /\ cache = PRECACHE_ASSETS
    /\ inflight = {}
    /\ lastResponse = Null

Init ==
    /\ now = 0
    /\ launch = "detecting"
    /\ connectionStartTime = 0
    /\ retrySchedule = retryDelayScheduleMs
    /\ retryTimer = Null
    /\ socketsCreated = 0
    /\ readyState = "NONE"
    /\ listening = FALSE
    /\ closeCalls = 0
    /\ state = "connecting"
    /\ sharedSecret = Null
    /\ nextMessageId = 1
    /\ pendingRequests = {}
    /\ reqStatus = [i \in 1..MaxRequests |-> "unissued"]
    /\ returned = [i \in 1..MaxRequests |-> "none"]
    /\ idBase = Wide(0, 0)
    /\ wire = [i \in 1..MaxRequests |-> Null]
    /\ sent = 0
    /\ tasks = EmptyBag
    /\ codec = NoCall
    /\ ShellInit
    /\ WorkerInit
    /\ callbacksRunning = 0
    /\ framesLeft = MaxFrames
    /\ errorsLeft = MaxErrors
    /\ outcome = "pending"
    /\ settleCalls = 0

\* ----------------------------------------------------------------- helpers
\* SEQUENCE_NUMBER_BYTES + INITIALIZATION_VECTOR_BYTES + tag (tagLength: 128)
\* + the shortest JSON-RPC envelope: the length of an encrypted frame.
EncryptedFrameBytes ==
    SEQUENCE_NUMBER_BYTES + INITIALIZATION_VECTOR_BYTES + (128 \div 8) + 36

\* An inbound WebSocket frame, by what the handlers read of it:
\*   binary      evt.data is an ArrayBuffer (socket.binaryType = 'arraybuffer')
\*   byteLength  its length
\*   point       its first 65 bytes import as a P-256 public key
\*   auth        it decrypts and authenticates under the client's session key
\*   id, err     the envelope inside: response.id and whether it has .error
\*   result      response.result ("none": the envelope has no result)
Frame(b, n, p, a, i, e, r) ==
    [binary |-> b, byteLength |-> n, point |-> p, auth |-> a, id |-> i, err |-> e,
     result |-> r]

\* The result objects the wallet answers with.
Results == {"r1", "r2"}

Frames ==
    {Frame(FALSE, 0, FALSE, FALSE, 0, FALSE, "none")}
    \cup {Frame(TRUE, ENCODED_PUBLIC_KEY_LENGTH_BYTES - 1, FALSE, FALSE, 0, FALSE, "none")}
    \cup {Frame(TRUE, ENCODED_PUBLIC_KEY_LENGTH_BYTES, p, FALSE, 0, FALSE, "none") :
              p \in BOOLEAN}
    \cup {Frame(TRUE, EncryptedFrameBytes, FALSE, TRUE, i, TRUE, "none") :
              i \in 1..MaxRequests}
    \cup {Frame(TRUE, EncryptedFrameBytes, FALSE, TRUE, i, FALSE, r) :
              i \in 1..MaxRequests, r \in Results}

\* A suspended continuation: the rest of an async handler after its await.
\*   "open"     handleOpen after generateECDHKeypair / createHelloReq
\*   "hello"    handleMessage after parseHelloRsp (ok: the key was derived)
\*   "decrypt"  handleMessage after decryptMessage (ok: the frame authenticated)
\*   "encrypt"  sendRequest after encryptJsonRpcMessage
Task(t, ok, i, e, r) == [t |-> t, ok |-> ok, id |-> i, err |-> e, result |-> r]
OpenTask == Task("open", TRUE, 0, FALSE, "none")
HelloTask(ok) == Task("hello", ok, 0, FALSE, "none")
DecryptTask(ok, i, e, r) == Task("decrypt", ok, i, e, r)
EncryptTask(i) == Task("encrypt", TRUE, i, FALSE, "none")

Spawn(tk) == tasks (+) SetToBag({tk})
Retire(tk) == tasks (-) SetToBag({tk})

\* A promise that every resolve / reject call overwrites.
SettleLastWins(cur, o) == o

\* resolve / reject of `new Promise((resolve, reject) => ...)`: only the first
\* call settles the promise.
Settle(cur, o) == IF cur = "pending" THEN o ELSE cur

Called(n) == Min(n + 1, 2)

\* ... : retrySchedule[1], which is undefined once one entry is left, and
\* setTimeout(f, undefined) fires at once.
GetNextRetryDelayOffByOne(sched) == IF Len(sched) > 1 THEN Head(sched) ELSE 0

\* const getNextRetryDelayMs = () =>
\*     retrySchedule.length > 1 ? retrySchedule.shift() : retrySchedule[0];
GetNextRetryDelayMs(sched) == IF Len(sched) > 1 THEN Head(sched) ELSE sched[1]

\* ... ? retrySchedule[0] : retrySchedule[0]: the head is read, never removed.
ShiftNever(sched) == sched

\* What retrySchedule.shift() leaves of the schedule.
ShiftRetrySchedule(sched) == IF Len(sched) > 1 THEN Tail(sched) ELSE sched

\* elapsed > timeoutMs: the boundary taken on the wrong side.
TimedOutStrict(elapsed) == elapsed > timeoutMs

\* handleError: elapsed >= WEBSOCKET_CONNECTION_CONFIG.timeoutMs
TimedOut(elapsed) == elapsed >= timeoutMs

\* handleClose: !evt.wasClean && state.type !== 'done'
CloseRejects(wasClean, st) == ~wasClean /\ st # "done"

\* handleMessage catch: e.message && e.message.startsWith('MWA Error')
\* The errors thrown inside the try block, by their message.
CatchRejects(msg) == msg = "MWA Error"

\* A length check that also turns away a buffer of exactly the key's length.
HelloTooShortOrExact(n) == n <= ENCODED_PUBLIC_KEY_LENGTH_BYTES

\* parseHelloRsp: payloadBuffer.byteLength < ENCODED_PUBLIC_KEY_LENGTH_BYTES
HelloTooShort(n) == n < ENCODED_PUBLIC_KEY_LENGTH_BYTES

\* socket.send(data) throws InvalidStateError while the socket is CONNECTING;
\* on a CLOSING or CLOSED socket it discards the data without throwing.
SendThrows(rs) == rs = "CONNECTING"

\* A close() that leaves the socket as it is.
AfterCloseNoop(rs) == rs

\* socket.close(): CONNECTING or OPEN -> CLOSING
AfterClose(rs) == IF rs \in {"CONNECTING", "OPEN"} THEN "CLOSING" ELSE rs

\* catch (e) { throw e; }: the rejection of the detection promise as it is.
LaunchAssociationRethrows(e) == e

\* launchAssociation: whatever rejects the detection promise is replaced by
\* an ERROR_WALLET_NOT_FOUND error, which startSession and transact let pass.
LaunchAssociationError(e) == "ERROR_WALLET_NOT_FOUND"

\* pendingRequests.values().next().value: the oldest entry, whatever the id.
OldestPending(id, pend) ==
    IF pend = {} THEN Null ELSE <<CHOOSE i \in pend : \A j \in pend : i <= j>>

\* const pending = pendingRequests.get(response.id): the key of the entry
\* found, Null if there is none.
GetPending(id, pend) == IF id \in pend THEN <<id>> ELSE Null

\* wallet.authorize and the five other methods: return result.result
WalletReturns(response) == response.result

\* cleanup(): clearTimeout(retryTimeoutId) and remove the four listeners
Cleanup == retryTimer' = Null /\ listening' = FALSE

\* attemptConnection(): socket = new WebSocket(...); addEventListener x 4
AttemptConnection ==
    /\ socketsCreated' = socketsCreated + 1
    /\ readyState' = "CONNECTING"
    /\ listening' = TRUE
    /\ closeCalls' = 0
    /\ sent' = 0

\* ----------------------------------------------------------------- launch
\* A detection whose blur listener and timer are never taken away.
DetectionArmedForever(l) == TRUE

\* getDetectionPromise: the blur listener is registered and the 3000 ms timer
\* is running.  Both are set up together and cleanup() removes both together,
\* in handleBlur and in the timer's callback, before the promise is settled.
DetectionArmed(l) == l = "detecting"

\* The window loses focus inside the detection window: startSession returns
\* the port, transact takes connectionStartTime and calls attemptConnection.
\* A blur with the listener removed runs no handler.
Blur ==
    /\ DetectionArmed(launch)
    /\ launch' = "launched"
    /\ connectionStartTime' = now
    /\ AttemptConnection
    /\ UNCHANGED <<now, retrySchedule, retryTimer, sessVars, asyncVars, promVars>>
    /\ UNCHANGED <<idBase, wire>>
    /\ UNCHANGED <<codec, shellVars, workerVars>>

\* The 3000 ms timer fires first: launchAssociation throws and transact
\* rejects before any socket exists.
DetectionTimeout ==
    /\ DetectionArmed(launch)
    /\ launch' = "not_found"
    /\ now' = Max(now, DetectionWindowMs)
    /\ outcome' = Settle(outcome, LaunchAssociationError("WALLET_NOT_FOUND"))
    /\ settleCalls' = Called(settleCalls)
    /\ UNCHANGED <<connectionStartTime, retrySchedule, retryTimer,
                   socketVars, sessVars, asyncVars>>
    /\ UNCHANGED wireVars
    /\ UNCHANGED <<codec, shellVars, workerVars>>

\* Wall-clock time passes between two events of the session.
Tick ==
    /\ launch = "launched"
    /\ now < MaxClock
    /\ now' = now + TickMs
    /\ UNCHANGED <<launch, connectionStartTime, retrySchedule, retryTimer,
                   socketVars, sessVars, asyncVars, promVars>>
    /\ UNCHANGED wireVars
    /\ UNCHANGED <<codec, shellVars, workerVars>>

\* -------------------------------------------------------------- transport
\* 'open' event: handleOpen up to its first await.
HandleOpen ==
    /\ listening /\ readyState = "CONNECTING"
    /\ CopiesIn(OpenTask, tasks) < MaxOpenTasks
    /\ readyState' = "OPEN"
    /\ state' = "connected"
    /\ tasks' = Spawn(OpenTask)
    /\ UNCHANGED <<launch, clockVars, socketsCreated, listening, closeCalls,
                   sharedSecret, nextMessageId, pendingRequests, reqStatus,
                   returned, callbacksRunning, framesLeft, errorsLeft, promVars>>
    /\ UNCHANGED wireVars
    /\ UNCHANGED <<codec, shellVars, workerVars>>

\* handleOpen after the awaits: socket.send(helloReq); state = hello_sent.
\* The send is on whatever `socket` is now, not on the socket whose 'open'
\* event started the handler; if it throws the state is kept.
HandleOpenResume ==
    /\ BagIn(OpenTask, tasks)
    /\ tasks' = Retire(OpenTask)
    /\ state' = IF SendThrows(readyState) THEN state ELSE "hello_sent"
    /\ sent' = SendHelloOn(readyState, sent)
    /\ UNCHANGED <<launch, clockVars, socketVars, sharedSecret, nextMessageId,
                   pendingRequests, reqStatus, returned, callbacksRunning,
                   framesLeft, errorsLeft, promVars>>
    /\ UNCHANGED <<idBase, wire>>
    /\ UNCHANGED <<codec, shellVars, workerVars>>

\* 'close' event on the open socket.
HandleClose(wasClean) ==
    /\ listening /\ readyState = "OPEN"
    /\ readyState' = "CLOSED"
    /\ Cleanup
    /\ IF CloseRejects(wasClean, state)
          THEN /\ outcome' = Settle(outcome, "SESSION_CLOSED")
               /\ settleCalls' = Called(settleCalls)
          ELSE UNCHANGED promVars
    /\ UNCHANGED <<launch, now, connectionStartTime, retrySchedule,
                   socketsCreated, closeCalls, sessVars, asyncVars>>
    /\ UNCHANGED wireVars
    /\ UNCHANGED <<codec, shellVars, workerVars>>

\* 'error' event on the connecting or open socket.
HandleError ==
    /\ listening /\ readyState \in {"CONNECTING", "OPEN"}
    /\ readyState' = "CLOSED"
    /\ listening' = FALSE
    /\ IF TimedOut(now - connectionStartTime)
          THEN /\ retryTimer' = Null
               /\ outcome' = Settle(outcome, "ERROR_SESSION_TIMEOUT")
               /\ settleCalls' = Called(settleCalls)
               /\ UNCHANGED retrySchedule
          ELSE /\ retryTimer' = <<now + GetNextRetryDelayMs(retrySchedule)>>
               /\ retrySchedule' = ShiftRetrySchedule(retrySchedule)
               /\ UNCHANGED promVars
    /\ UNCHANGED <<launch, now, connectionStartTime, socketsCreated, closeCalls,
                   sessVars, tasks, callbacksRunning, framesLeft>>
    /\ UNCHANGED wireVars
    /\ UNCHANGED <<codec, shellVars, workerVars>>

\* An 'error' event of a session whose wallet is there: one of the few.
SocketError ==
    /\ errorsLeft > 0
    /\ errorsLeft' = errorsLeft - 1
    /\ HandleError

\* An 'error' event of a session whose wallet never listens on the port:
\* every connection attempt ends in one.
ConnectionRefused ==
    /\ HandleError
    /\ UNCHANGED errorsLeft

\* The retry timer fires, no earlier than it is due: attemptConnection().
RetryTimerFires ==
    /\ retryTimer # Null
    /\ now' = Max(now, retryTimer[1])
    /\ retryTimer' = Null
    /\ AttemptConnection
    /\ UNCHANGED <<launch, connectionStartTime, retrySchedule, sessVars,
                   asyncVars, promVars>>
    /\ UNCHANGED <<idBase, wire>>
    /\ UNCHANGED <<codec, shellVars, workerVars>>

\* ---------------------------------------------------------------- messages
\* A dispatch that looks neither at the kind of the data nor for the states
\* in which no message is expected.
MessageBranchAnyData(f, st) == IF st = "session_ready" THEN "rpc" ELSE "hello"

\* handleMessage: data that is neither a Blob nor an ArrayBuffer returns at
\* once; then the branch is chosen by state.type, and no branch is taken in
\* connecting, connected and done.  (No code assigns 'waiting_response'.)
MessageBranch(f, st) ==
    IF ~f.binary THEN "none"
    ELSE IF st = "hello_sent" THEN "hello"
    ELSE IF st = "session_ready" THEN "rpc"
    ELSE "none"

\* 'message' event: handleMessage up to its first await.  The socket's
\* binaryType is 'arraybuffer', so the state is read in the same turn.
HandleMessage(f) ==
    /\ listening /\ readyState = "OPEN"
    /\ framesLeft > 0
    /\ framesLeft' = framesLeft - 1
    /\ tasks' =
         IF MessageBranch(f, state) = "hello"
             THEN IF HelloTooShort(f.byteLength) THEN tasks
                  ELSE Spawn(HelloTask(f.point))
         ELSE IF MessageBranch(f, state) = "rpc"
             THEN Spawn(DecryptTask(f.auth /\ sharedSecret # Null, f.id, f.err,
                                    f.result))
         ELSE tasks
    /\ UNCHANGED <<launch, clockVars, socketVars, sessVars, callbacksRunning,
                   errorsLeft, promVars>>
    /\ UNCHANGED wireVars
    /\ UNCHANGED <<codec, shellVars, workerVars>>

\* handleMessage after parseHelloRsp: on success the key is stored, the state
\* is session_ready and callback(wallet) is invoked; a failure (importKey,
\* deriveBits) is caught and, not being an 'MWA Error', dropped.
ParseHelloResume(ok) ==
    /\ BagIn(HelloTask(ok), tasks)
    /\ tasks' = Retire(HelloTask(ok))
    /\ IF ok
          THEN /\ sharedSecret' = IF sharedSecret = Null THEN <<1>> ELSE <<sharedSecret[1] + 1>>
               /\ state' = "session_ready"
               /\ callbacksRunning' = callbacksRunning + 1
          ELSE UNCHANGED <<sharedSecret, state, callbacksRunning>>
    /\ UNCHANGED <<launch, clockVars, socketVars, nextMessageId, pendingRequests,
                   reqStatus, returned, framesLeft, errorsLeft, promVars>>
    /\ UNCHANGED wireVars
    /\ UNCHANGED <<codec, shellVars, workerVars>>

\* A counter that is read but not advanced.
PostIncrementStuck(n) == n

\* const id = nextMessageId++: the counter after the request took its id.
PostIncrement(n) == n + 1

\* The callback calls a wallet method: sendRequest up to its await.
SendRequest ==
    /\ callbacksRunning > 0
    /\ nextMessageId <= MaxRequests
    /\ nextMessageId' = PostIncrement(nextMessageId)
    /\ reqStatus' = [reqStatus EXCEPT ![nextMessageId] = "pending"]
    /\ tasks' = Spawn(EncryptTask(nextMessageId))
    /\ UNCHANGED <<launch, clockVars, socketVars, state, sharedSecret,
                   pendingRequests, returned, callbacksRunning, framesLeft,
                   errorsLeft, promVars>>
    /\ UNCHANGED wireVars
    /\ UNCHANGED <<codec, shellVars, workerVars>>

\* sendRequest after encryptJsonRpcMessage: the await throws if encryptMessage
\* could not build the sequence number vector; else socket.send and
\* pendingRequests.set.
SendRequestResume(i) ==
    /\ BagIn(EncryptTask(i), tasks)
    /\ tasks' = Retire(EncryptTask(i))
    /\ IF SequenceOverflow(RequestId(i))
          THEN /\ reqStatus' = [reqStatus EXCEPT ![i] = "overflow"]
               /\ UNCHANGED <<pendingRequests, wire>>
          ELSE IF SendThrows(readyState)
          THEN /\ reqStatus' = [reqStatus EXCEPT ![i] = "send_failed"]
               /\ UNCHANGED <<pendingRequests, wire>>
          ELSE /\ wire' = [wire EXCEPT ![i] = CreateSequenceNumberVector(RequestId(i))]
               /\ pendingRequests' = pendingRequests \cup {i}
               /\ UNCHANGED reqStatus
    /\ UNCHANGED <<idBase, sent>>
    /\ UNCHANGED <<launch, clockVars, socketVars, state, sharedSecret,
                   nextMessageId, returned, callbacksRunning, framesLeft,
                   errorsLeft, promVars>>
    /\ UNCHANGED <<codec, shellVars, workerVars>>

\* handleMessage after decryptJsonRpcMessage.
DecryptResume(tk) ==
    /\ tk.t = "decrypt" /\ BagIn(tk, tasks)
    /\ tasks' = Retire(tk)
    /\ LET thrown == IF ~tk.ok THEN "OperationError"
                     ELSE IF tk.err THEN "MWA Error" ELSE "none"
           pending == GetPending(tk.id, pendingRequests)
       IN  IF thrown = "none"
             THEN /\ IF pending # Null
                        THEN /\ pendingRequests' = pendingRequests \ {pending[1]}
                             /\ reqStatus' = [reqStatus EXCEPT ![pending[1]] = "resolved"]
                             /\ returned' = [returned EXCEPT ![pending[1]] = WalletReturns(tk)]
                        ELSE UNCHANGED <<pendingRequests, reqStatus, returned>>
                  /\ UNCHANGED <<retryTimer, readyState, listening, closeCalls,
                                 promVars>>
             ELSE /\ UNCHANGED <<pendingRequests, reqStatus, returned>>
                  /\ IF CatchRejects(thrown)
                        THEN /\ Cleanup
                             /\ readyState' = AfterClose(readyState)
                             /\ closeCalls' = Called(closeCalls)
                             /\ outcome' = Settle(outcome, "MWA_ERROR")
                             /\ settleCalls' = Called(settleCalls)
                        ELSE UNCHANGED <<retryTimer, readyState, listening,
                                         closeCalls, promVars>>
    /\ UNCHANGED <<launch, now, connectionStartTime, retrySchedule,
                   socketsCreated, state, sharedSecret, nextMessageId,
                   callbacksRunning, framesLeft, errorsLeft>>
    /\ UNCHANGED wireVars
    /\ UNCHANGED <<codec, shellVars, workerVars>>

\* handleMessage after `await callback(wallet)`: the callback returned
\* (threw = FALSE) or threw.
CallbackFinishes(threw) ==
    /\ callbacksRunning > 0
    /\ callbacksRunning' = callbacksRunning - 1
    /\ state' = "done"
    /\ Cleanup
    /\ readyState' = AfterClose(readyState)
    /\ closeCalls' = Called(closeCalls)
    /\ outcome' = Settle(outcome, IF threw THEN "CALLBACK_ERROR" ELSE "RESULT")
    /\ settleCalls' = Called(settleCalls)
    /\ UNCHANGED <<launch, now, connectionStartTime, retrySchedule,
                   socketsCreated, sharedSecret, nextMessageId, pendingRequests,
                   reqStatus, returned, tasks, framesLeft, errorsLeft>>
    /\ UNCHANGED wireVars
    /\ UNCHANGED <<codec, shellVars, workerVars>>

Next ==
    \/ Blur
    \/ DetectionTimeout
    \/ Tick
    \/ HandleOpen
    \/ HandleOpenResume
    \/ \E wasClean \in BOOLEAN : HandleClose(wasClean)
    \/ SocketError
    \/ RetryTimerFires
    \/ \E f \in Frames : HandleMessage(f)
    \/ \E ok \in BOOLEAN : ParseHelloResume(ok)
    \/ SendRequest
    \/ \E i \in 1..MaxRequests : SendRequestResume(i)
    \/ \E tk \in DOMAIN tasks : DecryptResume(tk)
    \/ \E threw \in BOOLEAN : CallbackFinishes(threw)

Spec == Init /\ [][Next]_vars

\* The session whose wallet never listens: no socket ever opens.
NextNoWallet ==
    \/ Blur
    \/ DetectionTimeout
    \/ Tick
    \/ ConnectionRefused
    \/ RetryTimerFires

SpecNoWallet ==
    /\ Init
    /\ [][NextNoWallet]_vars
    /\ WF_vars(ConnectionRefused)
    /\ WF_vars(RetryTimerFires)
    /\ WF_vars(Blur \/ DetectionTimeout)

\* Numbers of requests a session has issued, and seen answered, when the
\* model takes it up: none, enough for the next ids to carry into the high
\* limb, and enough for the next ids to reach the 32-bit boundary.
IdBases ==
    {Wide(0, 0), Wide(0, Limb - 2),
     Wide(Limb - 1, Limb - 3), Wide(Limb - 1, Limb - 2), Wide(Limb - 1, Limb - 1)}

\* A session taken up in state session_ready: the launch was detected, the
\* first socket is open, HELLO_RSP has given the session key, the callback
\* is running and every request it has issued so far has been answered.
InitReady ==
    /\ now = 0
    /\ launch = "launched"
    /\ connectionStartTime = 0
    /\ retrySchedule = retryDelayScheduleMs
    /\ retryTimer = Null
    /\ socketsCreated = 1
    /\ readyState = "OPEN"
    /\ listening = TRUE
    /\ closeCalls = 0
    /\ state = "session_ready"
    /\ sharedSecret = <<1>>
    /\ nextMessageId = 1
    /\ pendingRequests = {}
    /\ reqStatus = [i \in 1..MaxRequests |-> "unissued"]
    /\ returned = [i \in 1..MaxRequests |-> "none"]
    /\ idBase \in IdBases
    /\ wire = [i \in 1..MaxRequests |-> Null]
    /\ sent = 1
    /\ tasks = EmptyBag
    /\ codec = NoCall
    /\ ShellInit
    /\ WorkerInit
    /\ callbacksRunning = 1
    /\ framesLeft = MaxFrames
    /\ errorsLeft = MaxErrors
    /\ outcome = "pending"
    /\ settleCalls = 0

\* The events of that session while its connection raises no 'error': the
\* frames and the close of the wallet, the requests of the callback and its
\* end.
NextReady ==
    \/ \E wasClean \in BOOLEAN : HandleClose(wasClean)
    \/ \E f \in Frames : HandleMessage(f)
    \/ SendRequest
    \/ \E i \in 1..MaxRequests : SendRequestResume(i)
    \/ \E tk \in DOMAIN tasks : DecryptResume(tk)
    \/ \E threw \in BOOLEAN : CallbackFinishes(threw)

SpecReady == InitReady /\ [][NextReady]_vars

\* ------------------------------------------------------------ pure calls
\* The inputs of the pure functions.  Code units: A, e-acute, the euro sign,
\* the two halves of a surrogate pair (U+1F600), which also occur alone, and
\* U+FEFF.
CodeUnits == {65, 233, 8364, 55357, 56832, 65279}
Plaintexts == UNION {[1..n -> CodeUnits] : n \in 0..MaxPlainLen}
SequenceNumbers == {Wide(1, 256), Wide(Limb - 1, Limb - 1)}
Keys == {1, 2}
\* What crypto.getRandomValues may put in the 12-byte nonce.
Nonces ==
    {[j \in 1..INITIALIZATION_VECTOR_BYTES |-> 0],
     [j \in 1..INITIALIZATION_VECTOR_BYTES |-> 17 * j]}

\* The HELLO_RSP buffers: of every length around the key's, beginning with
\* the uncompressed-point prefix 04 or not, and with two different fillings.
HelloLengths ==
    {0, 1, ENCODED_PUBLIC_KEY_LENGTH_BYTES - 1, ENCODED_PUBLIC_KEY_LENGTH_BYTES,
     ENCODED_PUBLIC_KEY_LENGTH_BYTES + 1, 2 * ENCODED_PUBLIC_KEY_LENGTH_BYTES}
HelloBuffers ==
    {[j \in 1..n |-> IF j = 1 THEN first ELSE (fill * j) % 256] :
        n \in HelloLengths, first \in {4, 0}, fill \in {1, 3}}

\* crypto.subtle.importKey('raw', bytes, ECDH P-256): a raw P-256 key is the
\* 65 bytes of an uncompressed point, prefix 04; anything else is a DataError.
\* That the coordinates satisfy the curve equation is not modelled.
ImportRawKey(bytes) ==
    IF Len(bytes) = ENCODED_PUBLIC_KEY_LENGTH_BYTES /\ bytes[1] = 4
        THEN <<bytes>> ELSE Null

\* parseHelloRsp(payloadBuffer, ...): the thrown message, or "none", and the
\* bytes handed to importKey, Null if importKey was not reached.
ParseHelloRsp(payloadBuffer) ==
    IF HelloTooShort(Len(payloadBuffer))
        THEN [thrown |-> "HELLO_RSP too short", imported |-> Null]
    ELSE LET walletPublicKeyBytes ==
                 Slice(payloadBuffer, 0, ENCODED_PUBLIC_KEY_LENGTH_BYTES)
         IN  [thrown |-> IF ImportRawKey(walletPublicKeyBytes) = Null
                            THEN "DataError" ELSE "none",
              imported |-> <<walletPublicKeyBytes>>]

\* parseHelloRsp(payloadBuffer, associationPublicKey, ecdhPrivateKey)
CallParseHelloRsp(payloadBuffer) ==
    /\ codec.op = "none"
    /\ LET r == ParseHelloRsp(payloadBuffer)
       IN  codec' = Call("parseHelloRsp", [buffer |-> payloadBuffer],
                         IF r.imported = Null THEN <<>> ELSE r.imported[1],
                         r.thrown = "none", <<r.thrown, r.imported # Null>>)
    /\ UNCHANGED <<transactVars, shellVars, workerVars>>

\* Math.random() returns a double r with 0 <= r < 1; here r = m / Limb for
\* m in 0..Limb-1.  Both ends and the borders of the first and last ports.
Randoms == {0, 1, 3, 4, 5, 7, 8, Limb \div 2, Limb - 5, Limb - 4, Limb - 1}

\* A port choice whose range is one too wide.
GetRandomPortWide(m) ==
    EphemeralPortMin + (m * (EphemeralPortMax - EphemeralPortMin + 2)) \div Limb

\* getRandomPort: 49152 + Math.floor(Math.random() * (65535 - 49152 + 1)).
\* The product is exact in double arithmetic (the factor is 2^14).
GetRandomPort(m) ==
    EphemeralPortMin + (m * (EphemeralPortMax - EphemeralPortMin + 1)) \div Limb

\* Number.prototype.toString of a non-negative integer: its decimal digits,
\* most significant first, as character codes.
RECURSIVE NumberToString(_)
NumberToString(n) ==
    IF n < 10 THEN <<48 + n>>
    ELSE Append(NumberToString(n \div 10), 48 + (n % 10))

\* startSession and the websocketURL of transact, for one value of
\* Math.random(): the port returned, the text of the `port` parameter of the
\* association URL and the text between `ws://localhost:` and `/solana-wallet`.
CallStartSession(m) ==
    /\ codec.op = "none"
    /\ LET port == GetRandomPort(m)
       IN  codec' = Call("startSession", [random |-> m], NumberToString(port),
                         TRUE, <<port, NumberToString(port)>>)
    /\ UNCHANGED <<transactVars, shellVars, workerVars>>

\* encryptMessage(plaintext, sequenceNumber, sharedSecret)
CallEncryptMessage(plaintext, sequenceNumber, key, iv) ==
    /\ codec.op = "none"
    /\ codec' = Call("encryptMessage",
                     [plain |-> plaintext, seq |-> sequenceNumber, key |-> key,
                      iv |-> iv, dkey |-> key, at |-> 0],
                     EncryptMessage(plaintext, sequenceNumber, key, iv),
                     TRUE, <<>>)
    /\ UNCHANGED <<transactVars, shellVars, workerVars>>

\* The frame is altered on its way: byte `at` of the sequence-number field
\* or of the ciphertext (tag included) gets another value.
TamperFrame(at, delta) ==
    /\ codec.op = "encryptMessage"
    /\ at \in 1..SEQUENCE_NUMBER_BYTES
          \/ at \in (SEQUENCE_NUMBER_BYTES + INITIALIZATION_VECTOR_BYTES + 1)
                        ..Len(codec.frame)
    /\ codec' = Call("tamper", [codec.arg EXCEPT !.at = at],
                     [codec.frame EXCEPT ![at] = (@ + delta) % 256], TRUE, <<>>)
    /\ UNCHANGED <<transactVars, shellVars, workerVars>>

\* decryptMessage(message, sharedSecret) on the frame as it now is
CallDecryptMessage(key) ==
    /\ codec.op \in {"encryptMessage", "tamper"}
    /\ LET r == DecryptMessage(codec.frame, key)
       IN  codec' = Call(IF codec.op = "tamper" THEN "decryptTampered"
                                                ELSE "decryptMessage",
                         [codec.arg EXCEPT !.dkey = key], codec.frame,
                         r # Null, IF r = Null THEN <<>> ELSE r[1])
    /\ UNCHANGED <<transactVars, shellVars, workerVars>>

NextCodec ==
    \/ \E plaintext \in Plaintexts, sequenceNumber \in SequenceNumbers,
          key \in Keys, iv \in Nonces :
            CallEncryptMessage(plaintext, sequenceNumber, key, iv)
    \/ \E at \in 1..(SEQUENCE_NUMBER_BYTES + INITIALIZATION_VECTOR_BYTES
                        + 4 * MaxPlainLen + TagBytes),
          delta \in {1, 255} :
            TamperFrame(at, delta)
    \/ \E key \in Keys : CallDecryptMessage(key)
    \/ \E payloadBuffer \in HelloBuffers : CallParseHelloRsp(payloadBuffer)
    \/ \E m \in Randoms : CallStartSession(m)

SpecCodec == Init /\ [][NextCodec]_vars

TypeOK ==
    /\ launch \in {"called", "insecure", "detecting", "launched", "not_found"}
    /\ state \in {"connecting", "connected", "hello_sent", "session_ready", "done"}
    /\ readyState \in {"NONE", "CONNECTING", "OPEN", "CLOSING", "CLOSED"}
    /\ listening \in BOOLEAN
    /\ pendingRequests \subseteq 1..MaxRequests
    /\ nextMessageId \in 1..(MaxRequests + 1)
    /\ IsABag(tasks)
    /\ returned \in [1..MaxRequests -> Results \cup {"none"}]
    /\ idBase \in IdBases
    /\ sent \in 0..2
    /\ \A i \in 1..MaxRequests :
          wire[i] = Null \/ wire[i] \in [1..SEQUENCE_NUMBER_BYTES -> 0..255]

\* Every event the scheduling of the browser delivers in the end: a pending
\* launch detection settles, a connection attempt ends in 'open' or 'error',
\* an open socket is closed by one side, an armed timer fires, every awaited
\* crypto operation completes and the callback terminates.
FairSpec ==
    /\ Init
    /\ [][Next]_vars
    /\ WF_vars(Blur \/ DetectionTimeout)
    /\ WF_vars(HandleOpen \/ SocketError)
    /\ WF_vars(SocketError \/ \E wasClean \in BOOLEAN : HandleClose(wasClean))
    /\ WF_vars(RetryTimerFires)
    /\ WF_vars(HandleOpenResume)
    /\ WF_vars(\E ok \in BOOLEAN : ParseHelloResume(ok))
    /\ WF_vars(\E i \in 1..MaxRequests : SendRequestResume(i))
    /\ WF_vars(\E tk \in DOMAIN tasks : DecryptResume(tk))
    /\ WF_vars(\E threw \in BOOLEAN : CallbackFinishes(threw))

\* ------------------------------------------------------------------ claims
\* A decrypted response that carries an error object.
IsErrorResponse(tk) == tk.t = "decrypt" /\ tk.ok /\ tk.err

\* C1: when a decrypted response envelope carries an error object and its id
\* is the id of a pending request, that request's promise, and no other, is
\* rejected with the protocol error.
C1_ErrorRejectsItsRequest ==
    [][\A tk \in DOMAIN tasks :
          (IsErrorResponse(tk) /\ tk.id \in pendingRequests /\ DecryptResume(tk))
          => /\ reqStatus'[tk.id] = "protocol_error"
             /\ \A j \in 1..MaxRequests \ {tk.id} : reqStatus'[j] = reqStatus[j]
      ]_vars

\* C2: a response envelope that carries an error object does not terminate
\* the session: after handleMessage has processed it the client has not
\* closed the socket, the transact promise is as it was (unsettled) and the
\* handlers that match later responses are still attached.
C2_ErrorKeepsSession ==
    [][\A tk \in DOMAIN tasks :
          (IsErrorResponse(tk) /\ DecryptResume(tk))
          => /\ closeCalls' = closeCalls
             /\ readyState' = readyState
             /\ listening' = listening
             /\ outcome' = outcome
      ]_vars

\* C3: when the socket closes uncleanly in state session_ready with requests
\* pending, every pending request is rejected with a session-closed error
\* and pendingRequests is empty afterwards.
C3_UncleanCloseDrainsPending ==
    [][(state = "session_ready" /\ pendingRequests # {} /\ HandleClose(FALSE))
          => /\ pendingRequests' = {}
             /\ \A i \in pendingRequests : reqStatus'[i] = "session_closed"
      ]_vars

\* C4: a socket 'error' event in state session_ready terminates the session:
\* the transact promise is rejected, no retry timer is armed and no new
\* WebSocket is created afterwards, whatever the elapsed time.
C4_ErrorWhileReadyTerminates ==
    [][(state = "session_ready" /\ HandleError)
          => /\ outcome' \notin {"pending", "RESULT"}
             /\ retryTimer' = Null
      ]_vars

\* C5: the session key is assigned at most once in a transact call: once
\* sharedSecret is set, no later step replaces it.
C5_OneSessionKey ==
    [][sharedSecret # Null => sharedSecret' = sharedSecret]_vars

\* C6: a HELLO_RSP shorter than 65 bytes, or one whose key agreement fails,
\* received in state hello_sent aborts the session: the transact promise is
\* rejected.
C6_MalformedHelloAborts ==
    [][/\ \A f \in Frames :
             (state = "hello_sent" /\ f.binary /\ HelloTooShort(f.byteLength)
                  /\ HandleMessage(f))
             => outcome' # "pending"
       /\ ParseHelloResume(FALSE) => outcome' # "pending"
      ]_vars

\* C7: the caller of transact receives at most one terminal outcome, the
\* first one produced: the first resolve/reject call settles the promise, no
\* later step changes the outcome, and the outcome is the callback's result
\* only when the callback returned before any reject call.
C7_OneTerminalOutcome ==
    [][/\ outcome # "pending" => outcome' = outcome
       /\ (settleCalls = 0 /\ settleCalls' # 0) => outcome' # "pending"
       /\ (outcome' = "RESULT" /\ outcome # "RESULT")
             => settleCalls = 0 /\ CallbackFinishes(FALSE)
      ]_vars

\* A later resolve was called on a promise already rejected by a protocol
\* error, and the rejection stands.
C7_Witness == settleCalls = 2 /\ outcome = "MWA_ERROR" /\ state = "done"

\* C8: every transact call whose launch succeeded eventually settles its
\* promise, under the fairness of FairSpec.
C8_EventuallySettled == (launch = "launched") ~> (outcome # "pending")

\* The delays waited by the first n retries of a session.
RECURSIVE DelaysWaited(_)
DelaysWaited(n) ==
    IF n = 0 THEN 0
    ELSE DelaysWaited(n - 1)
         + retryDelayScheduleMs[Min(n, Len(retryDelayScheduleMs))]

\* C9: when every connection attempt ends in an 'error' event, the session
\* does not retry forever (a retry is made only while the delays already
\* waited are below timeoutMs) and it eventually fails with
\* ERROR_SESSION_TIMEOUT.
C9_NoWalletTimesOut ==
    /\ [](socketsCreated > 1 => DelaysWaited(socketsCreated - 2) < timeoutMs)
    /\ (launch = "launched") ~> (outcome = "ERROR_SESSION_TIMEOUT")

\* The timeout was reached by the retry delays alone, past the end of the
\* schedule: every socket but the last was followed by a retry.
C9_Witness ==
    /\ outcome = "ERROR_SESSION_TIMEOUT"
    /\ Len(retrySchedule) = 1
    /\ DelaysWaited(socketsCreated - 1) >= timeoutMs
    /\ now - connectionStartTime = DelaysWaited(socketsCreated - 1)

\* C10: a connection error observed when at least timeoutMs have elapsed
\* since connectionStartTime rejects the session with ERROR_SESSION_TIMEOUT
\* and arms no retry timer, and after that rejection no timer is armed and
\* no WebSocket is created, whatever is left of the retry schedule.
C10_TimeoutEndsRetrying ==
    [][/\ (now - connectionStartTime >= timeoutMs /\ HandleError)
             => outcome' = "ERROR_SESSION_TIMEOUT" /\ retryTimer' = Null
       /\ outcome = "ERROR_SESSION_TIMEOUT"
             => retryTimer' = Null /\ socketsCreated' = socketsCreated
      ]_vars

\* The session timed out with entries of the schedule still unconsumed.
C10_Witness ==
    /\ outcome = "ERROR_SESSION_TIMEOUT"
    /\ Len(retrySchedule) > 1
    /\ retryTimer = Null

\* C11: the delay of the k-th retry of a session is the k-th entry of
\* retryDelayScheduleMs for k up to its length and its last entry (1000 ms)
\* for every later k; the entries are consumed one at a time and in order,
\* so that after the k-th retry the schedule holds what follows entry k, or
\* the last entry alone.  The k-th retry is armed by the 'error' event of
\* the k-th socket.
C11_KthRetryDelay ==
    [][(HandleError /\ retryTimer' # Null)
          => LET k == socketsCreated
                 n == Len(retryDelayScheduleMs)
             IN  /\ retryTimer'[1] - now = retryDelayScheduleMs[Min(k, n)]
                 /\ retrySchedule' = SubSeq(retryDelayScheduleMs, Min(k + 1, n), n)
      ]_vars

\* The ninth retry is armed: the schedule is down to its last entry, which
\* is the delay once more.
C11_Witness ==
    /\ socketsCreated = Len(retryDelayScheduleMs) + 1
    /\ retryTimer = <<now + 1000>>
    /\ retrySchedule = <<1000>>

\* C12: when the 3000 ms detection timer fires before any 'blur' event, the
\* transact call fails with ERROR_WALLET_NOT_FOUND, and it has created no
\* WebSocket and never creates one.
C12_NotFoundBeforeAnySocket ==
    launch = "not_found"
        => /\ outcome = "ERROR_WALLET_NOT_FOUND"
           /\ now >= DetectionWindowMs
           /\ socketsCreated = 0 /\ readyState = "NONE" /\ ~listening
           /\ retryTimer = Null

\* The detection window has just run out.
C12_Witness == launch = "not_found" /\ now = DetectionWindowMs /\ settleCalls = 1

\* A decrypted response that carries a result and no error object.
IsResultResponse(tk) == tk.t = "decrypt" /\ tk.ok /\ ~tk.err

\* C13: whatever requests are pending together and in whatever order their
\* responses arrive, a response with id k resolves the pending entry k and
\* removes it, the wallet method of request k returns the result field of
\* that response, and no other request is touched; a response whose id has
\* no pending entry touches none.
C13_ResponseResolvesItsRequest ==
    [][\A tk \in DOMAIN tasks :
          (IsResultResponse(tk) /\ DecryptResume(tk))
          => IF tk.id \in pendingRequests
                THEN /\ pendingRequests' = pendingRequests \ {tk.id}
                     /\ reqStatus'[tk.id] = "resolved"
                     /\ returned'[tk.id] = tk.result
                     /\ \A j \in 1..MaxRequests \ {tk.id} :
                           reqStatus'[j] = reqStatus[j] /\ returned'[j] = returned[j]
                ELSE UNCHANGED <<pendingRequests, reqStatus, returned>>
      ]_vars

\* Two requests were pending together and the response of the second came
\* first: it resolved the second, and the first is still waiting.
C13_Witness ==
    /\ reqStatus[2] = "resolved" /\ returned[2] \in Results
    /\ reqStatus[1] = "pending" /\ 1 \in pendingRequests

\* What the callback's end asks of the transact promise.
CallbackOutcome(threw) == IF threw THEN "CALLBACK_ERROR" ELSE "RESULT"

\* C14: when the callback finishes in state session_ready, the state becomes
\* done, the socket is closed and the transact promise takes the callback's
\* outcome: resolved with its result, or rejected with what it threw.
C14_CallbackOutcomePropagated ==
    [][\A threw \in BOOLEAN :
          (state = "session_ready" /\ CallbackFinishes(threw))
          => /\ state' = "done"
             /\ closeCalls' # 0 /\ readyState' \in {"CLOSING", "CLOSED"}
             /\ outcome' = CallbackOutcome(threw)
      ]_vars

\* C14, amended: when the callback finishes in state session_ready, the
\* state becomes done and the socket is closed; the transact promise takes
\* the callback's outcome if it is still pending, and keeps the rejection it
\* already has (unclean close, timeout, protocol error) otherwise.
C14_CallbackOutcomeUnlessSettled ==
    [][\A threw \in BOOLEAN :
          (state = "session_ready" /\ CallbackFinishes(threw))
          => /\ state' = "done"
             /\ closeCalls' # 0 /\ readyState' \in {"CLOSING", "CLOSED"}
             /\ outcome' = IF outcome = "pending" THEN CallbackOutcome(threw)
                                                  ELSE outcome
      ]_vars

\* The callback returned on an open, unsettled session: resolved, closing.
C14_Witness ==
    /\ state = "done" /\ outcome = "RESULT" /\ settleCalls = 1
    /\ closeCalls = 1 /\ readyState = "CLOSING"

\* C15: when the callback throws or completes while requests are still in
\* pendingRequests, the teardown rejects every one of them with a
\* session-closed error and leaves pendingRequests empty.
C15_TeardownDrainsPending ==
    [][\A threw \in BOOLEAN :
          (pendingRequests # {} /\ CallbackFinishes(threw))
          => /\ pendingRequests' = {}
             /\ \A i \in pendingRequests : reqStatus'[i] = "session_closed"
      ]_vars

\* C16: an encrypted request frame goes out on the socket only while the
\* session is Ready: whenever sendRequest hands a frame to an open socket,
\* state is session_ready and sharedSecret is set.
C16_RequestsOnlyWhenReady ==
    [][\A i \in 1..MaxRequests :
          (readyState = "OPEN" /\ SendRequestResume(i) /\ wire'[i] # Null)
          => state = "session_ready" /\ sharedSecret # Null
      ]_vars

\* C17: a 'close' event that arrives before the session is Ready (state
\* connecting, connected or hello_sent) fails the session: after it the
\* transact promise is rejected.
C17_CloseBeforeReadyRejects ==
    [][\A wasClean \in BOOLEAN :
          (state \in {"connecting", "connected", "hello_sent"}
               /\ HandleClose(wasClean))
          => outcome' \notin {"pending", "RESULT"}
      ]_vars

\* C18: once a session that created a socket has ended (callback success or
\* error, protocol error, unexpected close, timeout), the client has called
\* close on the session's current socket exactly once: not zero times, not
\* twice.
C18_SocketClosedExactlyOnce ==
    (outcome # "pending" /\ socketsCreated > 0) => closeCalls = 1

\* The number that four bytes spell, most significant first.
BigEndianValue(v) == Wide(v[1] * 256 + v[2], v[3] * 256 + v[4])

\* Sequence numbers across the 32-bit range: the ends and the byte borders
\* of each limb.
SampleSequenceNumbers ==
    {Wide(h, l) : h \in {0, 1, 255, 256, Limb - 1}, l \in {0, 1, 255, 256, Limb - 1}}

\* C19: the outbound sequence number never wraps.  A frame given to the
\* socket carries the four big-endian bytes of exactly its request id; a
\* request whose id has reached 2^32 gets the overflow error from
\* sendRequest, puts no frame on the socket and no entry in pendingRequests;
\* and every sequence number below 2^32 is encoded as its exact value.
C19_SequenceNeverWraps ==
    /\ \A i \in 1..MaxRequests :
          /\ wire[i] # Null => BigEndianValue(wire[i]) = RequestId(i)
          /\ RequestId(i)[1] >= Limb
                => /\ wire[i] = Null /\ i \notin pendingRequests
                   /\ reqStatus[i] \in {"unissued", "pending", "overflow"}
                   /\ reqStatus[i] = "pending" => BagIn(EncryptTask(i), tasks)
          /\ reqStatus[i] = "overflow" => RequestId(i)[1] >= Limb
    /\ \A w \in SampleSequenceNumbers :
          BigEndianValue(CreateSequenceNumberVector(w)) = w

\* The request with id 2^32 - 1 went out as ff ff ff ff, and the next one,
\* with id 2^32, failed with the overflow error and sent nothing.
C19_Witness ==
    /\ RequestId(1) = Wide(Limb - 1, Limb - 1)
    /\ wire[1] = <<255, 255, 255, 255>>
    /\ reqStatus[2] = "overflow" /\ wire[2] = Null /\ 2 \notin pendingRequests

\* A sendRequest of the session has failed with the overflow error.
OverflowRaised == \E i \in 1..MaxRequests : reqStatus[i] = "overflow"

\* C20: sequence-number overflow is fatal to the session, whatever the
\* callback does with the error: once a sendRequest has failed with it, the
\* callback gets no further request issued and the transact promise, if
\* still pending, can only be rejected.
C20_OverflowEndsSession ==
    [][OverflowRaised
          => /\ nextMessageId' = nextMessageId
             /\ outcome = "pending" => outcome' # "RESULT"
      ]_vars

\* A string without a surrogate that lacks its partner.
RECURSIVE IsWellFormed(_)
IsWellFormed(str) ==
    IF str = <<>> THEN TRUE
    ELSE IF IsHighSurrogate(str[1])
        THEN Len(str) > 1 /\ IsLowSurrogate(str[2]) /\ IsWellFormed(Tail(Tail(str)))
    ELSE ~IsLowSurrogate(str[1]) /\ IsWellFormed(Tail(str))

\* A string that TextEncoder and TextDecoder carry unchanged: well formed,
\* and not beginning with U+FEFF.
IsTextSafe(str) == IsWellFormed(str) /\ (str = <<>> \/ str[1] # 65279)

\* The frame of an encryptMessage call has its layout: the sequence number
\* in bytes 0..3, the nonce in bytes 4..15, then the ciphertext and its tag.
FrameLaidOut ==
    codec.op = "encryptMessage"
        => /\ Slice(codec.frame, 0, 4) = CreateSequenceNumberVector(codec.arg.seq)
           /\ Slice(codec.frame, 4, 16) = codec.arg.iv
           /\ Len(codec.frame) =
                 4 + 12 + Len(Utf8Encode(codec.arg.plain)) + TagBytes

C22_TamperDetected ==
    codec.op = "decryptTampered" => ~codec.ok /\ codec.out = <<>>

\* A change in the sequence-number field, and one in the ciphertext, made
\* decryptMessage throw under the right key.
C22_Witness ==
    /\ codec.op = "decryptTampered" /\ codec.arg.dkey = codec.arg.key
    /\ ~codec.ok /\ codec.arg.at = SEQUENCE_NUMBER_BYTES
    /\ codec.arg.plain # <<>>

\* A frame that did not decrypt: crypto.subtle.decrypt threw.
IsUndecryptable(tk) == tk.t = "decrypt" /\ ~tk.ok

\* C23: when a frame received in state session_ready fails decryption, the
\* failure reaches a caller: with a request awaiting its response and the
\* transact promise pending, handleMessage, on resuming from the failed
\* decryptJsonRpcMessage, rejects the transact promise or settles a pending
\* request; it does not leave everything as it was.
C23_DecryptFailureSurfaced ==
    [][\A tk \in DOMAIN tasks :
          (/\ IsUndecryptable(tk) /\ state = "session_ready"
           /\ pendingRequests # {} /\ outcome = "pending"
           /\ DecryptResume(tk))
          => \/ outcome' # "pending"
             \/ \E j \in 1..MaxRequests :
                   reqStatus[j] = "pending" /\ reqStatus'[j] # "pending"
      ]_vars

StateRank(s) ==
    CASE s = "connecting" -> 0
      [] s = "connected" -> 1
      [] s = "hello_sent" -> 2
      [] s = "session_ready" -> 3
      [] s = "done" -> 4

\* C25: the state only moves forward along connecting, connected,
\* hello_sent, session_ready, done, except that a retry may take a state
\* before session_ready back into the connecting phase; so session_ready
\* never turns into connecting, connected or hello_sent, and done never
\* changes.
C25_StateOnlyForward ==
    [][\/ StateRank(state') >= StateRank(state)
       \/ StateRank(state) < StateRank("session_ready")
      ]_vars

\* C26: the requests of a session get the ids 1, 2, 3, ... in the order of
\* the sendRequest calls, no id is given twice, and the frame that carries a
\* request has that request's id as the sequence number in its first four
\* bytes.
C26_IdsCountUpAndHeadFrames ==
    [][/\ SendRequest
          => /\ reqStatus[nextMessageId] = "unissued"
             /\ \A j \in 1..(nextMessageId - 1) : reqStatus[j] # "unissued"
             /\ reqStatus'[nextMessageId] = "pending"
             /\ nextMessageId' = nextMessageId + 1
       /\ \A i \in 1..MaxRequests :
             (wire'[i] # Null /\ SendRequestResume(i))
                => /\ reqStatus[i] = "pending"
                   /\ BigEndianValue(wire'[i]) = Wide(0, i)
                   /\ \A j \in 1..MaxRequests \ {i} : wire'[j] # wire'[i]
      ]_vars

\* Two requests were issued and sent: the first frame is headed 00 00 00 01,
\* the second 00 00 00 02.
C26_Witness ==
    /\ nextMessageId = 3
    /\ wire[1] = <<0, 0, 0, 1>> /\ wire[2] = <<0, 0, 0, 2>>

\* A frame that decrypted: a JSON-RPC response, with a result or an error.
IsResponse(tk) == tk.t = "decrypt" /\ tk.ok

\* C27: an entry of pendingRequests is made when its request is sent and
\* taken out once, by the response with its id; a response whose id has no
\* entry (already answered, or never issued) removes nothing, settles no
\* promise and leaves pendingRequests, the session state and the socket as
\* they were.
C27_StrayResponseIgnored ==
    [][/\ \A i \in 1..MaxRequests :
             (SendRequestResume(i) /\ wire'[i] # Null)
                => i \notin pendingRequests /\ pendingRequests' = pendingRequests \cup {i}
       /\ \A tk \in DOMAIN tasks :
             (IsResponse(tk) /\ tk.id \notin pendingRequests /\ DecryptResume(tk))
                => /\ pendingRequests' = pendingRequests
                   /\ reqStatus' = reqStatus
                   /\ outcome' = outcome
                   /\ state' = state
                   /\ readyState' = readyState /\ listening' = listening
      ]_vars

\* The number a string of decimal digits denotes.
RECURSIVE ParseDecimal(_)
ParseDecimal(str) ==
    IF str = <<>> THEN 0
    ELSE 10 * ParseDecimal(SubSeq(str, 1, Len(str) - 1)) + (str[Len(str)] - 48)

\* C28: for every value of Math.random() in [0, 1) getRandomPort returns an
\* integer from 49152 to 65535, and the `port` parameter of the association
\* URL and the port of ws://localhost:<port>/solana-wallet are the decimal
\* digits of that integer.
C28_PortInEphemeralRange ==
    codec.op = "startSession"
        => /\ codec.out[1] \in 49152..65535
           /\ \A j \in 1..Len(codec.frame) : codec.frame[j] \in 48..57
           /\ ParseDecimal(codec.frame) = codec.out[1]
           /\ codec.out[2] = codec.frame
           /\ codec.arg.random = 0 => codec.out[1] = 49152

\* The largest value of the random source gave port 65535, written "65535"
\* in both URLs.
C28_Witness ==
    /\ codec.op = "startSession" /\ codec.arg.random = Limb - 1
    /\ codec.out[1] = 65535
    /\ codec.frame = <<54, 53, 53, 51, 53>>

\* C29: the launch detection settles once.  handleBlur runs only while the
\* detection is pending and resolves it, at a time before the 3000 ms are
\* over; the timer's callback runs only while it is pending, at 3000 ms, and
\* rejects it with WALLET_NOT_FOUND; once it is resolved or rejected neither
\* runs again and the outcome of the detection stays.
C29_DetectionSettlesOnce ==
    [][/\ Blur => /\ launch = "detecting" /\ launch' = "launched"
                  /\ now < DetectionWindowMs /\ outcome' = outcome
       /\ DetectionTimeout
             => /\ launch = "detecting" /\ launch' = "not_found"
                /\ now' >= DetectionWindowMs
                /\ outcome' = "ERROR_WALLET_NOT_FOUND"
       /\ launch # "detecting" => launch' = launch
      ]_vars

\* The detection was resolved by a blur and the session went on for longer
\* than the detection window without the timer's rejection.
C29_Witness ==
    /\ launch = "launched" /\ now >= DetectionWindowMs /\ socketsCreated > 0
    /\ outcome # "ERROR_WALLET_NOT_FOUND"

\* C30: a connection gets one HELLO_REQ only.  The current socket has never
\* transmitted two of them, whatever 'error' events and reconnections fall
\* between an 'open' event and the end of the key generation its handler
\* awaits; so one handshake at most is outstanding on it.
C30_OneHelloPerConnection == sent <= 1

\* C31: callback(wallet) is invoked at most once in a transact call.  It is
\* invoked together with the first assignment of sharedSecret, so an
\* invocation is a first one exactly if sharedSecret was still null: no
\* step starts the callback when a session key has been stored before.
C31_CallbackInvokedOnce ==
    [][callbacksRunning' > callbacksRunning => sharedSecret = Null]_vars

\* C32: request frames reach the socket in the order of their sequence
\* numbers, however the callback's wallet calls overlap: when the frame of
\* request i is given to socket.send, no request with a later id has been
\* sent already.
C32_FramesSentInIdOrder ==
    [][\A i \in 1..MaxRequests :
          (SendRequestResume(i) /\ wire'[i] # Null)
             => \A j \in (i + 1)..MaxRequests : wire[j] = Null
      ]_vars

\* C33: once the transact promise has settled no retry timer is armed and no
\* further WebSocket is created; and no connection attempt starts when
\* timeoutMs or more have passed since connectionStartTime.
C33_NoAttemptAfterSettleOrTimeout ==
    [][/\ outcome' # "pending" => retryTimer' = Null
       /\ outcome # "pending" => socketsCreated' = socketsCreated
       /\ socketsCreated' > socketsCreated
             => ~TimedOut(now' - connectionStartTime')
      ]_vars

\* C34: a message whose data is not binary, and any message that arrives in
\* state connecting, connected or done, is ignored: handleMessage starts no
\* parsing or decryption for it, and state, sharedSecret, nextMessageId,
\* pendingRequests, the requests' promises, the transact promise and what
\* the socket was given to send are as before.
C34_UnexpectedMessageIgnored ==
    [][\A f \in Frames :
          (/\ HandleMessage(f)
           /\ ~f.binary \/ state \in {"connecting", "connected", "done"})
          => /\ tasks' = tasks
             /\ UNCHANGED <<state, sharedSecret, nextMessageId, pendingRequests,
                            reqStatus, outcome, wire, sent, callbacksRunning>>
      ]_vars

\* On the first connection a message was taken while handleOpen was still
\* generating its key (state connected), and nothing but handleOpen's
\* continuation is waiting.
C34_Witness ==
    /\ socketsCreated = 1 /\ state = "connected"
    /\ framesLeft < MaxFrames
    /\ tasks = SetToBag({OpenTask})

\* ------------------------------------------------------ transact's entry
\* The global scopes transact can be called in: no window object at all (a
\* worker, a server), a window served over plain http, a secure window.
Windows == {"undefined", "insecure", "secure"}

\* A guard that asks only whether a window exists.
IsSecureContextAnyWindow(win) == win # "undefined"

\* The complement of transact's first condition:
\* typeof window === 'undefined' || !window.isSecureContext.
IsSecureContext(win) == win = "secure"

\* A call of transact that has not run its first statement.
InitCalled ==
    /\ now = 0
    /\ launch = "called"
    /\ connectionStartTime = 0
    /\ retrySchedule = retryDelayScheduleMs
    /\ retryTimer = Null
    /\ socketsCreated = 0
    /\ readyState = "NONE"
    /\ listening = FALSE
    /\ closeCalls = 0
    /\ state = "connecting"
    /\ sharedSecret = Null
    /\ nextMessageId = 1
    /\ pendingRequests = {}
    /\ reqStatus = [i \in 1..MaxRequests |-> "unissued"]
    /\ returned = [i \in 1..MaxRequests |-> "none"]
    /\ idBase = Wide(0, 0)
    /\ wire = [i \in 1..MaxRequests |-> Null]
    /\ sent = 0
    /\ codec = NoCall
    /\ ShellInit
    /\ WorkerInit
    /\ tasks = EmptyBag
    /\ callbacksRunning = 0
    /\ framesLeft = MaxFrames
    /\ errorsLeft = MaxErrors
    /\ outcome = "pending"
    /\ settleCalls = 0

\* transact up to the detection promise: outside a secure context the throw
\* rejects the returned promise; inside one the association keypair is
\* generated, the solana-wallet: URL is assigned to window.location and the
\* blur listener and the detection timer are armed.
TransactCalled(win) ==
    /\ launch = "called"
    /\ IF IsSecureContext(win)
          THEN /\ launch' = "detecting"
               /\ outcome' = outcome
          ELSE /\ launch' = "insecure"
               /\ outcome' = Settle(outcome, "ERROR_SECURE_CONTEXT_REQUIRED")
    /\ UNCHANGED <<clockVars, socketVars, sessVars, asyncVars, settleCalls>>
    /\ UNCHANGED wireVars
    /\ UNCHANGED <<codec, shellVars, workerVars>>

\* The session from the call of transact to the end of its handshake.
NextCalled ==
    \/ \E win \in Windows : TransactCalled(win)
    \/ Blur
    \/ DetectionTimeout
    \/ Tick
    \/ HandleOpen
    \/ HandleOpenResume
    \/ \E wasClean \in BOOLEAN : HandleClose(wasClean)
    \/ SocketError
    \/ RetryTimerFires
    \/ \E f \in Frames : HandleMessage(f)
    \/ \E ok \in BOOLEAN : ParseHelloResume(ok)

SpecCalled == InitCalled /\ [][NextCalled]_vars

\* C35: a call of transact outside a secure context (no window, or a window
\* whose isSecureContext is false) rejects with ERROR_SECURE_CONTEXT_REQUIRED
\* in its first step, and neither that step nor any later one generates the
\* association keypair, launches the invocation URL or creates a WebSocket.
C35_InsecureContextRejectsFirst ==
    [][/\ \A win \in Windows \ {"secure"} :
            TransactCalled(win)
               => /\ outcome' = "ERROR_SECURE_CONTEXT_REQUIRED"
                  /\ launch' = "insecure"
                  /\ socketsCreated' = 0 /\ retryTimer' = Null
       /\ launch = "insecure"
            => /\ launch' = "insecure"
               /\ socketsCreated' = 0
               /\ outcome' = "ERROR_SECURE_CONTEXT_REQUIRED" ]_vars

C35_Witness ==
    /\ launch = "insecure"
    /\ outcome = "ERROR_SECURE_CONTEXT_REQUIRED"
    /\ socketsCreated = 0

\* ------------------------------------------- the shell: wallet and balance
MaxConnects == 1
MaxFetches == 2

\* The addresses a wallet authorizes, already in base58.
Addresses == {"addrA", "addrB"}

\* const rpcEndpoints = [...]: three URLs, tried in order.
rpcEndpoints == 3

\* 1 SOL = 1,000,000,000 lamports.
LamportsPerSol == 1000000000

\* data.result.value of a getBalance answer.  Whole numbers of SOL, for
\* which value / 1e9 is exact.
Lamports == {0, 2 * LamportsPerSol}

\* A fetchBalance call suspended at `await fetch(rpcUrl, ...)` ("fetch") or
\* at `await response.json()` ("json") of the endpoint-th RPC URL.
FetchTask(endpoint, stage) == [endpoint |-> endpoint, stage |-> stage]
FetchTasks ==
    {FetchTask(e, st) : e \in 1..rpcEndpoints, st \in {"fetch", "json"}}

\* fetchBalance up to its first await: with no wallet address it clears the
\* balance and returns; otherwise it posts getBalance to the first endpoint.
FetchBalance ==
    IF walletAddress' = Null
       THEN /\ balance' = Null
            /\ fetching' = fetching
       ELSE /\ balance' = balance
            /\ fetching' = fetching (+) SetToBag({FetchTask(1, "fetch")})

\* connectWallet, connectWithMWA: the call up to `await provider.connect()`
\* or `await transact(...)`.
ConnectWallet ==
    /\ connecting < MaxConnects
    /\ connecting' = connecting + 1
    /\ UNCHANGED <<currentPage, touchStartX, touchEndX, isWalletConnected,
                   walletAddress, balance, fetching>>
    /\ UNCHANGED <<transactVars, codec, workerVars>>

\* The wallet authorizes an account: the address and the flag are set and
\* fetchBalance is called without being awaited.
ConnectResolves(address) ==
    /\ connecting > 0
    /\ BagCardinality(fetching) < MaxFetches
    /\ connecting' = connecting - 1
    /\ walletAddress' = <<address>>
    /\ isWalletConnected' = TRUE
    /\ FetchBalance
    /\ UNCHANGED <<currentPage, touchStartX, touchEndX>>
    /\ UNCHANGED <<transactVars, codec, workerVars>>

\* The user rejects, the wallet returns no account or transact throws.
ConnectRejects ==
    /\ connecting > 0
    /\ connecting' = connecting - 1
    /\ UNCHANGED <<currentPage, touchStartX, touchEndX, isWalletConnected,
                   walletAddress, balance, fetching>>
    /\ UNCHANGED <<transactVars, codec, workerVars>>

\* The refresh button of the wallet modal, which handleWalletClick opens for
\* a connected wallet only.
RefreshBalance ==
    /\ isWalletConnected
    /\ BagCardinality(fetching) < MaxFetches
    /\ walletAddress' = walletAddress
    /\ FetchBalance
    /\ UNCHANGED <<currentPage, touchStartX, touchEndX, isWalletConnected,
                   connecting>>
    /\ UNCHANGED <<transactVars, codec, workerVars>>

\* The disconnect button of the same modal.
DisconnectWallet ==
    /\ isWalletConnected
    /\ isWalletConnected' = FALSE
    /\ walletAddress' = Null
    /\ balance' = Null
    /\ UNCHANGED <<currentPage, touchStartX, touchEndX, connecting, fetching>>
    /\ UNCHANGED <<transactVars, codec, workerVars>>

\* fetchBalance moves on from a failed endpoint: the next iteration of the
\* loop posts to the next URL; after the last one the balance becomes 0.
TryNextEndpoint(t) ==
    IF t.endpoint < rpcEndpoints
       THEN /\ fetching' = (fetching (-) SetToBag({t}))
                              (+) SetToBag({FetchTask(t.endpoint + 1, "fetch")})
            /\ balance' = balance
       ELSE /\ fetching' = fetching (-) SetToBag({t})
            /\ balance' = <<0>>

\* `await fetch(...)` settles: "ok" goes on to response.json(); a response
\* that is not ok and a rejected fetch go to the next endpoint.
FetchSettles(t, result) ==
    /\ t \in BagToSet(fetching) /\ t.stage = "fetch"
    /\ IF result = "ok"
          THEN /\ fetching' = (fetching (-) SetToBag({t}))
                                 (+) SetToBag({FetchTask(t.endpoint, "json")})
               /\ balance' = balance
          ELSE TryNextEndpoint(t)
    /\ UNCHANGED <<currentPage, touchStartX, touchEndX, isWalletConnected,
                   walletAddress, connecting>>
    /\ UNCHANGED <<transactVars, codec, workerVars>>

\* `await response.json()` settles: a body whose result.value is a number
\* sets the balance and ends the call; any other body, and a body that does
\* not parse, goes to the next endpoint.  data = Null stands for those.
JsonSettles(t, data) ==
    /\ t \in BagToSet(fetching) /\ t.stage = "json"
    /\ IF data # Null
          THEN /\ fetching' = fetching (-) SetToBag({t})
               /\ balance' = <<data[1] \div LamportsPerSol>>
          ELSE TryNextEndpoint(t)
    /\ UNCHANGED <<currentPage, touchStartX, touchEndX, isWalletConnected,
                   walletAddress, connecting>>
    /\ UNCHANGED <<transactVars, codec, workerVars>>

NextWallet ==
    \/ ConnectWallet
    \/ \E address \in Addresses : ConnectResolves(address)
    \/ ConnectRejects
    \/ RefreshBalance
    \/ DisconnectWallet
    \/ \E t \in FetchTasks, result \in {"ok", "not_ok", "rejected"} :
          FetchSettles(t, result)
    \/ \E t \in FetchTasks, data \in {Null} \cup {<<v>> : v \in Lamports} :
          JsonSettles(t, data)

\* C36: whenever isWalletConnected is false, walletAddress and balance are
\* both null, also when a fetchBalance that was started before a disconnect
\* completes after it.
C36_DisconnectedMeansNoAddressNoBalance ==
    ~isWalletConnected => walletAddress = Null /\ balance = Null

\* ------------------------------------------------ the shell: navigation
\* const threshold = 100
threshold == 100

\* screenX of a touch, in pixels: positions whose differences fall below,
\* on and above the threshold.
ScreenXs == {0, 100, 101, 200}

Abs(n) == IF n < 0 THEN 0 - n ELSE n

\* pages.indexOf(page), counted from 0; -1 when absent.
IndexOf(page) ==
    IF \E i \in 1..Len(pages) : pages[i] = page
       THEN (CHOOSE i \in 1..Len(pages) : pages[i] = page) - 1
       ELSE 0 - 1

\* handleSwipeGesture: the page navigateToPage is called with, or the
\* current page when no call is made.
SwipeTarget(page, startX, endX) ==
    LET diff == startX - endX
        currentIndex == IndexOf(page)
    IN  IF Abs(diff) < threshold THEN page
        ELSE IF diff > 0 /\ currentIndex < Len(pages) - 1
                THEN pages[(currentIndex + 1) + 1]
        ELSE IF diff < 0 /\ currentIndex > 0
                THEN pages[(currentIndex - 1) + 1]
        ELSE page

\* 'touchstart' on the page container.
HandleTouchStart(x) ==
    /\ touchStartX' = x
    /\ UNCHANGED <<currentPage, touchEndX, isWalletConnected, walletAddress,
                   balance, connecting, fetching>>
    /\ UNCHANGED <<transactVars, codec, workerVars>>

\* 'touchend': the end position is stored and handleSwipeGesture runs.
HandleTouchEnd(x) ==
    /\ touchEndX' = x
    /\ currentPage' = SwipeTarget(currentPage, touchStartX, x)
    /\ UNCHANGED <<touchStartX, isWalletConnected, walletAddress, balance,
                   connecting, fetching>>
    /\ UNCHANGED <<transactVars, codec, workerVars>>

\* A tap on a navigation item: nothing happens for the current page.
HandleNavigation(targetPage) ==
    /\ targetPage # currentPage
    /\ currentPage' = targetPage
    /\ UNCHANGED <<touchStartX, touchEndX, isWalletConnected, walletAddress,
                   balance, connecting, fetching>>
    /\ UNCHANGED <<transactVars, codec, workerVars>>

NextShell ==
    \/ NextWallet
    \/ \E x \in ScreenXs : HandleTouchStart(x)
    \/ \E x \in ScreenXs : HandleTouchEnd(x)
    \/ \E i \in 1..Len(pages) : HandleNavigation(pages[i])

SpecShell == Init /\ [][NextShell]_vars

\* ---------------------------------------------------- the service worker
MaxInflight == 2

Hrefs ==
    {Href("https:", "api.mainnet-beta.solana.com", <<"/">>),
     Href("https:", "api.devnet.solana.com", <<"/", "v1", "/", "icon", ".svg">>),
     Href("https:", AppHost, <<"/", "api", "/", "client", ".js">>),
     Href("https:", AppHost, <<"/", "api", "/", "logo", ".png">>),
     Href("https:", AppHost, <<"/", "proxy", "?u=", "api.devnet.solana.com">>),
     Href("chrome-extension:", "abcdef", <<"/", "api", "/", "inject", ".js">>),
     Href("https:", AppHost, <<"/", "js", "/", "app", ".js">>),
     Href("https:", AppHost, <<"/", "index", ".html">>),
     Href("https:", AppHost, <<"/", "data", ".json">>)}

\* A request: its method, its URL, whether its accept header includes
\* text/html and whether its mode is 'navigate'.
Request(method, href, html, navigate) ==
    [method |-> method, href |-> href, html |-> html, navigate |-> navigate]

Requests ==
    {Request("GET", h, FALSE, FALSE) : h \in Hrefs}
       \cup {Request("POST", Href("https:", "api.mainnet-beta.solana.com", <<"/">>),
                     FALSE, FALSE)}
       \cup {Request("GET", h, TRUE, TRUE) :
                h \in {Href("https:", AppHost, <<"/", "index", ".html">>),
                       Href("https:", AppHost, <<"/", "api", "/", "prices">>)}}

\* pattern.test(url) for a pattern without anchors.
Contains(href, pattern) ==
    \E i \in 1..(Len(href) - Len(pattern) + 1) :
        SubSeq(href, i, i + Len(pattern) - 1) = pattern

\* pattern.test(url) for /\.(?:a|b|...)$/.
EndsWithOneOf(href, extensions) == href[Len(href)] \in extensions

NETWORK_ONLY_PATTERNS ==
    {<<"api.mainnet-beta.solana.com">>, <<"api.devnet.solana.com">>,
     <<"/", "api", "/">>}

CACHE_FIRST_PATTERNS ==
    {{".png", ".jpg", ".jpeg", ".svg", ".gif", ".webp"},
     {".woff", ".woff2", ".ttf", ".otf", ".eot"},
     {".css", ".js"}}

isNetworkOnlyRequest(href) ==
    \E pattern \in NETWORK_ONLY_PATTERNS : Contains(href, pattern)

isCacheFirstRequest(href) ==
    \E extensions \in CACHE_FIRST_PATTERNS : EndsWithOneOf(href, extensions)

\* url.protocol.startsWith('http')
IsHttp(href) == href[1] \in {"http:", "https:"}

\* A fetch listener that tests the static-asset patterns first.
RouteCacheFirstBeforeNetworkOnly(request) ==
    IF request.method # "GET" THEN "none"
    ELSE IF ~IsHttp(request.href) THEN "none"
    ELSE IF isCacheFirstRequest(request.href) THEN "cacheFirst"
    ELSE IF isNetworkOnlyRequest(request.href) THEN "networkOnly"
    ELSE IF request.html THEN "networkFirst"
    ELSE "staleWhileRevalidate"

\* The fetch listener: the strategy whose promise is passed to
\* event.respondWith, "none" when the listener returns without answering.
Route(request) ==
    IF request.method # "GET" THEN "none"
    ELSE IF ~IsHttp(request.href) THEN "none"
    ELSE IF isNetworkOnlyRequest(request.href) THEN "networkOnly"
    ELSE IF isCacheFirstRequest(request.href) THEN "cacheFirst"
    ELSE IF request.html THEN "networkFirst"
    ELSE "staleWhileRevalidate"

\* What respondWith answered: where the response came from, its status and
\* its body ("stored": whatever the network or the cache holds).
Response(request, strategy, from, status, body) ==
    [request |-> request, strategy |-> strategy, from |-> from,
     status |-> status, body |-> body]

Cached(request, strategy) ==
    <<Response(request, strategy, "cache", 200, "stored")>>
Offline(request, strategy) ==
    <<Response(request, strategy, "worker", 503, "Offline")>>
NetworkUnavailable(request, strategy) ==
    <<Response(request, strategy, "worker", 503,
               "{\"error\":\"Network unavailable\"}")>>

\* A strategy suspended at its fetch(request); answered: respondWith's
\* promise is settled already (stale-while-revalidate with a cached copy).
Pending(request, strategy, answered) ==
    [request |-> request, strategy |-> strategy, answered |-> answered]

\* 'fetch' event: the listener and the chosen strategy up to its fetch().
FetchEvent(request) ==
    LET strategy == Route(request)
        hit == request.href \in cache
    IN  /\ Cardinality(inflight) < MaxInflight
        /\ IF strategy = "none"
              THEN /\ inflight' = inflight
                   /\ lastResponse' = Null
           ELSE IF strategy = "cacheFirst" /\ hit
              THEN /\ inflight' = inflight
                   /\ lastResponse' = Cached(request, strategy)
           ELSE IF strategy = "staleWhileRevalidate" /\ hit
              THEN /\ inflight' = inflight \cup {Pending(request, strategy, TRUE)}
                   /\ lastResponse' = Cached(request, strategy)
           ELSE /\ inflight' = inflight \cup {Pending(request, strategy, FALSE)}
                /\ lastResponse' = lastResponse
        /\ cache' = cache
        /\ UNCHANGED <<transactVars, codec, shellVars>>

\* The status of a response the network delivered.
StatusOf(result) == IF result = "ok" THEN 200 ELSE 404

\* fetch(request) settles: "ok" and "not_ok" are responses with and without
\* response.ok, "fails" is a rejection (offline).
NetworkSettles(p, result) ==
    LET request == p.request
        strategy == p.strategy
        hit == request.href \in cache
        network == <<Response(request, strategy, "network", StatusOf(result),
                              "stored")>>
    IN  /\ p \in inflight
        /\ inflight' = inflight \ {p}
        /\ IF strategy = "networkOnly"
              THEN /\ cache' = cache
                   /\ lastResponse' = IF result = "fails"
                                         THEN NetworkUnavailable(request, strategy)
                                         ELSE network
           ELSE /\ cache' = IF result = "ok" THEN cache \cup {request.href}
                                             ELSE cache
                /\ lastResponse' =
                      IF p.answered THEN lastResponse
                      ELSE IF result # "fails" THEN network
                      ELSE IF strategy = "cacheFirst"
                         THEN Offline(request, strategy)
                      ELSE IF hit THEN Cached(request, strategy)
                      ELSE IF strategy = "networkFirst" /\ request.navigate
                         THEN IF OFFLINE_URL \in cache
                                 THEN <<Response(request, strategy, "cache",
                                                 200, "offline.html")>>
                                 ELSE <<Response(request, strategy, "worker",
                                                 0, "undefined")>>
                      ELSE Offline(request, strategy)
        /\ UNCHANGED <<transactVars, codec, shellVars>>

\* 'message' event with data 'clearCache': every cache is deleted.
ClearCache ==
    /\ cache' = {}
    /\ UNCHANGED <<inflight, lastResponse>>
    /\ UNCHANGED <<transactVars, codec, shellVars>>

NextWorker ==
    \/ \E request \in Requests : FetchEvent(request)
    \/ \E p \in inflight, result \in {"ok", "not_ok", "fails"} :
          NetworkSettles(p, result)
    \/ ClearCache

SpecWorker == Init /\ [][NextWorker]_vars

\* The answer of networkOnly to a settled fetch: the network's response as
\* it is, or the 503 JSON error when the fetch was rejected.
NetworkOnlyAnswer(request, result) ==
    IF result = "fails"
       THEN NetworkUnavailable(request, "networkOnly")
       ELSE <<Response(request, "networkOnly", "network", StatusOf(result),
                       "stored")>>

\* The steps of an API request: the listener hands a request of the given
\* set to networkOnly and writes nothing to the cache, and a fetch that
\* settles for a URL matching NETWORK_ONLY_PATTERNS answers as networkOnly
\* does and writes nothing to the cache; no such URL is in the cache.
ApiRequestsNetworkOnly(apiRequests) ==
    /\ \A href \in cache' : ~isNetworkOnlyRequest(href)
    /\ \A request \in apiRequests :
          FetchEvent(request)
             => /\ inflight' = inflight \cup {Pending(request, "networkOnly", FALSE)}
                /\ cache' = cache
    /\ \A p \in inflight, result \in {"ok", "not_ok", "fails"} :
          (NetworkSettles(p, result) /\ isNetworkOnlyRequest(p.request.href))
             => /\ cache' = cache
                /\ lastResponse' = NetworkOnlyAnswer(p.request, result)

\* C37: no response to a URL matching NETWORK_ONLY_PATTERNS is ever in the
\* cache; every GET whose URL matches is answered by networkOnly, whatever
\* its extension and accept header, with no cache write and with the 503
\* JSON error when the network fails.
C37_ApiNeverCached ==
    [][ApiRequestsNetworkOnly(
           {r \in Requests : r.method = "GET" /\ isNetworkOnlyRequest(r.href)})
      ]_vars

\* C37, for the requests the listener handles: the same for every GET over
\* http or https.
C37_HttpApiNeverCached ==
    [][ApiRequestsNetworkOnly(
           {r \in Requests : /\ r.method = "GET" /\ IsHttp(r.href)
                             /\ isNetworkOnlyRequest(r.href)})
      ]_vars

\* An API URL ending in .js was asked for with the network down and got the
\* 503 JSON error, while the cache holds static assets only.
C37_Witness ==
    /\ lastResponse # Null
    /\ lastResponse[1].strategy = "networkOnly"
    /\ lastResponse[1].status = 503
    /\ isCacheFirstRequest(lastResponse[1].request.href)
    /\ Href("https:", AppHost, <<"/", "data", ".json">>) \in cache

\* C38: a touch that ends 100 pixels or less from where it started leaves
\* currentPage as it is; a longer one moves it by exactly one position in
\* pages, forward for a swipe to the left and back for a swipe to the right,
\* except that a left swipe on the last page and a right swipe on the first
\* page change nothing; a swipe never takes currentPage out of pages.
C38_SwipeMovesOnePageBeyondThreshold ==
    [][\A x \in ScreenXs :
          HandleTouchEnd(x)
             => LET diff == touchStartX - x
                    from == IndexOf(currentPage)
                    to == IndexOf(currentPage')
                IN  /\ to \in 0..(Len(pages) - 1)
                    /\ Abs(diff) <= threshold => to = from
                    /\ diff > threshold
                          => to = IF from = Len(pages) - 1 THEN from ELSE from + 1
                    /\ diff < 0 - threshold
                          => to = IF from = 0 THEN from ELSE from - 1 ]_vars

============================================================================
